---- MODULE Spec2Model ----
(***************************************************************************)
(* Military time clock (src/src/clock_sdcc/src/main.c): a 24 hour clock    *)
(* on an 8051.  timer_isr (Seconds Engine, timer 1, high priority) keeps   *)
(* the time, control_isr (Tick Engine, timer 0, 1 ms) debounces the        *)
(* switches, sets time and alarm, sequences the alarm tone and rotates the *)
(* digit select, and main() multiplexes the display.                       *)
(*                                                                         *)
(* A switch sample is the set of switches found pressed.  The pins are     *)
(* active low: a pressed switch reads 0.                                   *)
(***************************************************************************)
EXTENDS Integers, Naturals, Sequences, FiniteSets, TLC

VARIABLES
    gs_timeKeeper,      \* struct time: the current time
    gs_alarmKeeper,     \* struct time: the alarm time
    seconds,            \* uint8_t
    switchTimeout,      \* uint8_t
    initTimeout,        \* uint8_t
    milliseconds,       \* uint16_t
    prev_milliseconds,  \* uint16_t
    alarm_on_off,       \* uint8_t, ON or OFF
    alarm_tone,         \* uint8_t
    digitSelect,        \* uint8_t
    P1,                 \* port 1: seconds leds (bits 0..5), DOT_LED (6), ALARM_LED (7)
    P0,                 \* port 0: the segments of the selected digit
    P2,                 \* port 2: digit select (bits 0..3) and tone (bits 4..7)
    prev_digitSelect,   \* main(): uint8_t, the digit select of the last display pass
    mpc,                \* main(): the line it is at
    mtmp,               \* main(): the byte it has read and not yet used
    cpc,                \* control_isr: the line it is at, "idle" when not running
    csw,                \* control_isr: the sample it runs on
    ctmp,               \* control_isr: the byte it has read and not yet written back
    shown,              \* observer: the last digit main() read for the display
    last,               \* observer: the handler that ran last and the sample it read
    pre,                \* observer: the globals as that handler found them
    steps,              \* observer: handler invocations so far
    run,                \* observer: timer_isr invocations since power on, while clean
    clean,              \* observer: since power on only timer_isr ran, and found no switch pressed
    alarmHeld,          \* observer: consecutive control_isr samples with ALARM_SWITCH pressed
    minuteHeld,         \* observer: consecutive control_isr samples with MINUTE_SWITCH pressed
    hourHeld,           \* observer: consecutive control_isr samples with HOUR_SWITCH pressed
    alarmLen,           \* observer: length of the latest press of ALARM_SWITCH, in samples
    flipAt,             \* observer: the hold durations at which that press flipped alarm_on_off
    sinceInc,           \* observer: ticks since the last increment of the current hold (-1: none yet)
    lastInterval,       \* observer: ticks between the last two increments of the current hold (0: none yet)
    prevInterval,       \* observer: the interval before lastInterval (0: none yet)
    prevThreshold,      \* observer: initTimeout when prevInterval began
    lastThreshold,      \* observer: initTimeout when lastInterval began
    seg,                \* observer: consecutive control_isr samples equal to the last one
    changes,            \* observer: how often the sample differed from the one before
    gateMs,             \* observer: the value waitForTimeSet last read from milliseconds (-1: none)
    gateSet,            \* observer: what waitForTimeSet last read from SET_T_SWITCH
    setHeld,            \* environment: the time set switch is pressed, and stays so
    ranMain,            \* environment: main() has taken a step since the last control_isr
    note                \* observer: what the control_isr invocation under way has done

globals == <<gs_timeKeeper, gs_alarmKeeper, seconds, switchTimeout, initTimeout,
             milliseconds, prev_milliseconds, alarm_on_off, alarm_tone, digitSelect, P1>>
micro == <<P0, P2, prev_digitSelect, mpc, mtmp, cpc, csw, ctmp, shown>>
holds == <<alarmHeld, minuteHeld, hourHeld, alarmLen, flipAt, sinceInc, lastInterval, prevInterval,
           prevThreshold, lastThreshold, seg, changes>>
gate == <<gateMs, gateSet, setHeld, ranMain>>
observers == <<last, pre, steps, run, clean, holds, gate, note>>
vars == <<globals, micro, observers>>

----------------------------------------------------------------------------
(* Program constants *)

ON == 1
OFF == 0
SEG_ONE_MINUTE == 1
SEG_TEN_MINUTE == 2
SEG_ONE_HOUR == 4
SEG_TEN_HOUR == 8
MIN_DELAY == 75
INIT_DELAY == 125
RAMP_DELAY == 5
TONE_TIME == 250

U8(x) == x % 256
U16(x) == x % 65536

Switches == {"ALARM", "SET_A", "SET_T", "HOUR", "MINUTE"}
Samples == SUBSET Switches

\* The pins of P3 as a sample shows them: 0 when pressed.
ALARM_SWITCH(s) == IF "ALARM" \in s THEN 0 ELSE 1
SET_A_SWITCH(s) == IF "SET_A" \in s THEN 0 ELSE 1
SET_T_SWITCH(s) == IF "SET_T" \in s THEN 0 ELSE 1
HOUR_SWITCH(s) == IF "HOUR" \in s THEN 0 ELSE 1
MINUTE_SWITCH(s) == IF "MINUTE" \in s THEN 0 ELSE 1

Time(th, oh, tm, om) ==
    [one_minutes |-> om, ten_minutes |-> tm, one_hours |-> oh, ten_hours |-> th]

\* The globals as one record, so that a handler is a function on it.
G == [gs_timeKeeper |-> gs_timeKeeper, gs_alarmKeeper |-> gs_alarmKeeper,
      seconds |-> seconds, switchTimeout |-> switchTimeout,
      initTimeout |-> initTimeout, milliseconds |-> milliseconds,
      prev_milliseconds |-> prev_milliseconds, alarm_on_off |-> alarm_on_off,
      alarm_tone |-> alarm_tone, digitSelect |-> digitSelect, P1 |-> P1]

\* The globals as main() finds them when it starts (lines 104-122 and 154).
PowerOn ==
    [gs_timeKeeper |-> Time(0, 0, 0, 0), gs_alarmKeeper |-> Time(0, 0, 0, 0),
     seconds |-> 0, switchTimeout |-> 0, initTimeout |-> INIT_DELAY,
     milliseconds |-> 0, prev_milliseconds |-> 0, alarm_on_off |-> OFF,
     alarm_tone |-> 0, digitSelect |-> 1, P1 |-> 191]

\* Bit 7 of a port byte set to b (ALARM_LED = b).
SetBit7(p, b) == (p % 128) + 128 * b

----------------------------------------------------------------------------
(* timer_isr: lines 399-472 *)

\* The carries with the ten minutes reset and no hour counted.
SecondsRollover_NoHourCarry(t) ==
    LET a == IF t.one_minutes > 9
             THEN [t EXCEPT !.ten_minutes = U8(@ + 1), !.one_minutes = 0]
             ELSE t
        b == IF a.ten_minutes > 5 THEN [a EXCEPT !.ten_minutes = 0] ELSE a
        c == IF b.one_hours > 9
             THEN [b EXCEPT !.ten_hours = U8(@ + 1), !.one_hours = 0]
             ELSE b
    IN  IF c.ten_hours >= 2 /\ c.one_hours >= 4
        THEN [c EXCEPT !.ten_hours = 0, !.one_hours = 0]
        ELSE c

\* The carries with the minute digit left at 10 when the ten minutes are counted.
SecondsRollover_KeepsTen(t) ==
    LET a == IF t.one_minutes > 9
             THEN [t EXCEPT !.ten_minutes = U8(@ + 1)]
             ELSE t
        b == IF a.ten_minutes > 5
             THEN [a EXCEPT !.one_hours = U8(@ + 1), !.ten_minutes = 0]
             ELSE a
        c == IF b.one_hours > 9
             THEN [b EXCEPT !.ten_hours = U8(@ + 1), !.one_hours = 0]
             ELSE b
    IN  IF c.ten_hours >= 2 /\ c.one_hours >= 4
        THEN [c EXCEPT !.ten_hours = 0, !.one_hours = 0]
        ELSE c

\* Lines 425-451: the carries of the Seconds Engine, applied in order.
SecondsRollover(t) ==
    LET a == IF t.one_minutes > 9
             THEN [t EXCEPT !.ten_minutes = U8(@ + 1), !.one_minutes = 0]
             ELSE t
        b == IF a.ten_minutes > 5
             THEN [a EXCEPT !.one_hours = U8(@ + 1), !.ten_minutes = 0]
             ELSE a
        c == IF b.one_hours > 9
             THEN [b EXCEPT !.ten_hours = U8(@ + 1), !.one_hours = 0]
             ELSE b
    IN  IF c.ten_hours >= 2 /\ c.one_hours >= 4
        THEN [c EXCEPT !.ten_hours = 0, !.one_hours = 0]
        ELSE c

\* The minute counted once over 58.
SecondsCount_Over58(g) ==
    LET s1 == U8(g.seconds + 1)
    IN  IF s1 > 58
        THEN [g EXCEPT !.seconds = 0,
                       !.gs_timeKeeper.one_minutes = U8(@ + 1)]
        ELSE [g EXCEPT !.seconds = s1]

\* Lines 415-423: count the second, and the minute once over 59.
SecondsCount(g) ==
    LET s1 == U8(g.seconds + 1)
    IN  IF s1 > 59
        THEN [g EXCEPT !.seconds = 0,
                       !.gs_timeKeeper.one_minutes = U8(@ + 1)]
        ELSE [g EXCEPT !.seconds = s1]

\* Line 456: all four digits of the alarm equal those of the time.
AlarmMatch(g) ==
    /\ g.gs_alarmKeeper.ten_hours = g.gs_timeKeeper.ten_hours
    /\ g.gs_alarmKeeper.one_hours = g.gs_timeKeeper.one_hours
    /\ g.gs_alarmKeeper.ten_minutes = g.gs_timeKeeper.ten_minutes
    /\ g.gs_alarmKeeper.one_minutes = g.gs_timeKeeper.one_minutes

\* The tone started and stopped without a look at alarm_on_off.
AlarmEval_IgnoresOnOff(g) ==
    IF AlarmMatch(g)
    THEN LET a == IF g.seconds = 0
                  THEN [g EXCEPT !.prev_milliseconds = g.milliseconds,
                                 !.alarm_tone = 7]
                  ELSE g
         IN  IF a.seconds >= 59
             THEN [a EXCEPT !.prev_milliseconds = 0, !.alarm_tone = 0]
             ELSE a
    ELSE g

\* Lines 453-471: start the tone at second 0 of the alarm's minute, stop it at 59.
AlarmEval(g) ==
    IF g.alarm_on_off = ON /\ AlarmMatch(g)
    THEN LET a == IF g.seconds = 0
                  THEN [g EXCEPT !.prev_milliseconds = g.milliseconds,
                                 !.alarm_tone = 7]
                  ELSE g
         IN  IF a.seconds >= 59
             THEN [a EXCEPT !.prev_milliseconds = 0, !.alarm_tone = 0]
             ELSE a
    ELSE g

\* The handler with no look at the time set switch.
timer_isr_NoHold(g, s) ==
    LET a == SecondsCount(g)
        b == [a EXCEPT !.gs_timeKeeper = SecondsRollover(@)]
    IN  AlarmEval(b)

\* The whole handler on the globals g, sample s.
timer_isr(g, s) ==
    IF SET_T_SWITCH(s) = 0
    THEN [g EXCEPT !.seconds = 0]
    ELSE LET a == SecondsCount(g)
             b == [a EXCEPT !.gs_timeKeeper = SecondsRollover(@)]
         IN  AlarmEval(b)

----------------------------------------------------------------------------
(* control_isr: lines 232-396 *)

\* The alarm toggled with the tone left as it is.
AlarmSwitchBranch_KeepsTone(g) ==
    LET st == IF g.switchTimeout > MIN_DELAY
              THEN g.switchTimeout ELSE U8(g.switchTimeout + 1)
        a == [g EXCEPT !.switchTimeout = st]
    IN  IF st = MIN_DELAY
        THEN LET onoff == IF a.alarm_on_off = ON THEN OFF ELSE ON
             IN  [a EXCEPT !.alarm_on_off = onoff,
                           !.P1 = SetBit7(@, IF onoff = 0 THEN 1 ELSE 0)]
        ELSE a

\* Lines 245-265: the alarm on/off switch is pressed.
AlarmSwitchBranch(g) ==
    LET st == IF g.switchTimeout > MIN_DELAY
              THEN g.switchTimeout ELSE U8(g.switchTimeout + 1)
        a == [g EXCEPT !.switchTimeout = st]
    IN  IF st = MIN_DELAY
        THEN LET onoff == IF a.alarm_on_off = ON THEN OFF ELSE ON
                 b == [a EXCEPT !.alarm_on_off = onoff,
                                !.P1 = SetBit7(@, IF onoff = 0 THEN 1 ELSE 0)]
             IN  IF onoff = OFF
                 THEN [b EXCEPT !.prev_milliseconds = 0, !.alarm_tone = 0]
                 ELSE b
        ELSE a

\* The carries with the day wrapped at 25:00.
AlarmRollover_WrapAt25(t) ==
    LET a == IF t.one_minutes > 9
             THEN [t EXCEPT !.ten_minutes = U8(@ + 1), !.one_minutes = 0]
             ELSE t
        b == IF a.ten_minutes > 5 THEN [a EXCEPT !.ten_minutes = 0] ELSE a
        c == IF b.one_hours > 9
             THEN [b EXCEPT !.ten_hours = U8(@ + 1), !.one_hours = 0]
             ELSE b
    IN  IF c.ten_hours >= 2 /\ c.one_hours >= 5
        THEN [c EXCEPT !.ten_hours = 0, !.one_hours = 0]
        ELSE c

\* Lines 288-309: the carries of the alarm set branch.
AlarmRollover(t) ==
    LET a == IF t.one_minutes > 9
             THEN [t EXCEPT !.ten_minutes = U8(@ + 1), !.one_minutes = 0]
             ELSE t
        b == IF a.ten_minutes > 5 THEN [a EXCEPT !.ten_minutes = 0] ELSE a
        c == IF b.one_hours > 9
             THEN [b EXCEPT !.ten_hours = U8(@ + 1), !.one_hours = 0]
             ELSE b
    IN  IF c.ten_hours >= 2 /\ c.one_hours >= 4
        THEN [c EXCEPT !.ten_hours = 0, !.one_hours = 0]
        ELSE c

\* Lines 343-364: the carries of the time set branch.
TimeRollover(t) ==
    LET a == IF t.one_minutes > 9
             THEN [t EXCEPT !.ten_minutes = U8(@ + 1), !.one_minutes = 0]
             ELSE t
        b == IF a.ten_minutes > 5 THEN [a EXCEPT !.ten_minutes = 0] ELSE a
        c == IF b.one_hours > 9
             THEN [b EXCEPT !.ten_hours = U8(@ + 1), !.one_hours = 0]
             ELSE b
    IN  IF c.ten_hours >= 2 /\ c.one_hours >= 4
        THEN [c EXCEPT !.ten_hours = 0, !.one_hours = 0]
        ELSE c

\* Lines 282-285 and 337-340: add one to the digits whose switch is pressed.
AddPressed(t, s) ==
    [t EXCEPT !.one_minutes = U8(@ + (IF MINUTE_SWITCH(s) = 1 THEN 0 ELSE 1)),
              !.one_hours = U8(@ + (IF HOUR_SWITCH(s) = 1 THEN 0 ELSE 1))]

\* Lines 273-276 and 328-331: both increment switches released.
ResetInitTimeout(g, s) ==
    IF MINUTE_SWITCH(s) = 1 /\ HOUR_SWITCH(s) = 1
    THEN [g EXCEPT !.initTimeout = INIT_DELAY]
    ELSE g

\* Lines 279 and 334: an increment switch is pressed and the timeout is exceeded.
PressAllowed(g, s) ==
    /\ MINUTE_SWITCH(s) = 0 \/ HOUR_SWITCH(s) = 0
    /\ g.switchTimeout > g.initTimeout

\* Lines 311-318 and 366-373: the press has happened, ramp the timeout down.
RampDown(g) ==
    [g EXCEPT !.switchTimeout = 0,
              !.initTimeout = IF @ > MIN_DELAY THEN @ - RAMP_DELAY ELSE @]

\* Lines 267-320: the alarm set switch is pressed.
AlarmSetBranch(g, s) ==
    LET a == [g EXCEPT !.switchTimeout = U8(@ + 1)]
        b == ResetInitTimeout(a, s)
    IN  IF PressAllowed(b, s)
        THEN RampDown([b EXCEPT !.gs_alarmKeeper = AlarmRollover(AddPressed(@, s))])
        ELSE b

\* Lines 322-375: the time set switch is pressed.
TimeSetBranch(g, s) ==
    LET a == [g EXCEPT !.switchTimeout = U8(@ + 1)]
        b == ResetInitTimeout(a, s)
    IN  IF PressAllowed(b, s)
        THEN RampDown([b EXCEPT !.gs_timeKeeper = TimeRollover(AddPressed(@, s))])
        ELSE b

\* Lines 376-381: no switch is pressed.
IdleBranch(g) == [g EXCEPT !.switchTimeout = 0, !.initTimeout = INIT_DELAY]

\* Lines 245-381: the if / else if chain over the switches.
SwitchChain(g, s) ==
    IF ALARM_SWITCH(s) = 0 THEN AlarmSwitchBranch(g)
    ELSE IF SET_A_SWITCH(s) = 0 THEN AlarmSetBranch(g, s)
    ELSE IF SET_T_SWITCH(s) = 0 THEN TimeSetBranch(g, s)
    ELSE IdleBranch(g)

\* Lines 383-391: step the tone once TONE_TIME has passed (uint16_t arithmetic).
ToneSequencing(g) ==
    IF g.alarm_tone # 0
       /\ U16(g.milliseconds - g.prev_milliseconds + 65536) > TONE_TIME
    THEN [g EXCEPT !.prev_milliseconds = g.milliseconds,
                   !.alarm_tone = IF @ <= 1 THEN 7 ELSE @ - 1]
    ELSE g

\* The next digit with the wrap one position late.
DigitAdvance_WrapAt16(d) == IF d <= 8 THEN U8(d * 2) ELSE 1

\* Line 394: the next digit.
DigitAdvance(d) == IF d < 8 THEN U8(d * 2) ELSE 1

\* The whole handler on the globals g, sample s.
control_isr(g, s) ==
    LET a == [g EXCEPT !.milliseconds = U16(@ + 1)]
        b == SwitchChain(a, s)
        c == ToneSequencing(b)
    IN  [c EXCEPT !.digitSelect = DigitAdvance(@)]

----------------------------------------------------------------------------
(* The handlers as atomic actions *)

Store(g) ==
    /\ gs_timeKeeper' = g.gs_timeKeeper
    /\ gs_alarmKeeper' = g.gs_alarmKeeper
    /\ seconds' = g.seconds
    /\ switchTimeout' = g.switchTimeout
    /\ initTimeout' = g.initTimeout
    /\ milliseconds' = g.milliseconds
    /\ prev_milliseconds' = g.prev_milliseconds
    /\ alarm_on_off' = g.alarm_on_off
    /\ alarm_tone' = g.alarm_tone
    /\ digitSelect' = g.digitSelect
    /\ P1' = g.P1

Load(g) ==
    /\ gs_timeKeeper = g.gs_timeKeeper
    /\ gs_alarmKeeper = g.gs_alarmKeeper
    /\ seconds = g.seconds
    /\ switchTimeout = g.switchTimeout
    /\ initTimeout = g.initTimeout
    /\ milliseconds = g.milliseconds
    /\ prev_milliseconds = g.prev_milliseconds
    /\ alarm_on_off = g.alarm_on_off
    /\ alarm_tone = g.alarm_tone
    /\ digitSelect = g.digitSelect
    /\ P1 = g.P1

\* timer 1 overflows: timer_isr runs to its end on the sample s.
TimerISR(s) ==
    /\ Store(timer_isr(G, s))
    /\ last' = [op |-> "timer_isr", sw |-> s]
    /\ pre' = G
    /\ UNCHANGED micro

\* timer 0 overflows: control_isr runs to its end on the sample s.
ControlISR(s) ==
    /\ Store(control_isr(G, s))
    /\ last' = [op |-> "control_isr", sw |-> s]
    /\ pre' = G
    /\ UNCHANGED micro

\* timer_isr reads SET_T_SWITCH only.
TimerSamples == {{}, {"SET_T"}}

NoHolds ==
    /\ alarmHeld = 0 /\ minuteHeld = 0 /\ hourHeld = 0
    /\ alarmLen = 0 /\ flipAt = {}
    /\ sinceInc = -1 /\ lastInterval = 0 /\ prevInterval = 0
    /\ prevThreshold = 0 /\ lastThreshold = 0
    /\ seg = 0 /\ changes = 0

\* Line 92.
segmentArray == <<63, 6, 91, 79, 102, 109, 125, 7, 127, 111>>

\* main() at the top of its loop with the ports as lines 152-156 set them, and
\* no handler running.
AtLoop ==
    /\ P0 = segmentArray[1] /\ P2 = 0
    /\ prev_digitSelect = 1
    /\ mpc = "m166" /\ mtmp = 0
    /\ cpc = "idle" /\ csw = {} /\ ctmp = 0
    /\ shown = [pos |-> 0, alarm |-> FALSE, index |-> 0, during |-> "idle"]

\* Nothing observed of waitForTimeSet, and no switch held.
NoGate == gateMs = -1 /\ gateSet = "none" /\ setHeld = FALSE /\ ranMain = TRUE

\* No control_isr invocation is under way.
NoNote == [sw |-> {}, wrote |-> {}, alarm |-> Time(0, 0, 0, 0)]

\* No handler has run yet.
NoHandler ==
    /\ note = NoNote
    /\ last = [op |-> "none", sw |-> {}]
    /\ pre = G
    /\ steps = 0 /\ run = 0 /\ clean = TRUE
    /\ NoHolds

NoObservers ==
    /\ AtLoop
    /\ NoHandler
    /\ NoGate

----------------------------------------------------------------------------
(* Times *)

ValidTime(t) ==
    /\ t.one_minutes \in 0..9
    /\ t.ten_minutes \in 0..5
    /\ t.one_hours \in 0..9
    /\ t.ten_hours \in 0..2
    /\ ~(t.ten_hours >= 2 /\ t.one_hours >= 4)

ValidTimes ==
    {t \in [one_minutes : 0..9, ten_minutes : 0..5, one_hours : 0..9, ten_hours : 0..2] :
        ValidTime(t)}

\* Minutes since midnight, and back.
ToMinutes(t) == (t.ten_hours * 10 + t.one_hours) * 60 + t.ten_minutes * 10 + t.one_minutes
FromMinutes(n) ==
    Time((n \div 60) \div 10, (n \div 60) % 10, (n % 60) \div 10, (n % 60) % 10)
NextMinute(t) == FromMinutes((ToMinutes(t) + 1) % (24 * 60))

----------------------------------------------------------------------------
(* SpecDay: the Seconds Engine alone, from power on *)

MaxRun == 86500

DayLength == 24 * 60 * 60

InitDay ==
    /\ Load(PowerOn)
    /\ NoObservers

\* The 2 Hz source fires; the run is counted while no switch was ever found pressed.
DayTimer ==
    \E s \in TimerSamples :
        /\ clean => run < MaxRun
        /\ TimerISR(s)
        /\ clean' = (clean /\ s = {})
        /\ run' = IF clean' THEN run + 1 ELSE 0
        /\ UNCHANGED <<steps, holds, note, gate>>

NextDay == DayTimer

SpecDay == InitDay /\ [][NextDay]_vars

Midnight == Time(0, 0, 0, 0)

\* C3: for a valid currentTime and seconds in 0..59, one timer_isr invocation
\* with the time set switch not pressed gives seconds + 1 and the same time
\* when seconds < 59, and seconds 0 and the next minute modulo 24 hours when
\* seconds = 59.
C3_SecondsStep ==
    (/\ last.op = "timer_isr"
     /\ "SET_T" \notin last.sw
     /\ ValidTime(pre.gs_timeKeeper)
     /\ pre.seconds \in 0..59)
    => IF pre.seconds < 59
       THEN seconds = pre.seconds + 1 /\ gs_timeKeeper = pre.gs_timeKeeper
       ELSE seconds = 0 /\ gs_timeKeeper = NextMinute(pre.gs_timeKeeper)

\* 23:59:59 has become 00:00:00.
C3_Witness ==
    /\ last.op = "timer_isr" /\ "SET_T" \notin last.sw
    /\ pre.gs_timeKeeper = Time(2, 3, 5, 9) /\ pre.seconds = 59
    /\ gs_timeKeeper = Midnight /\ seconds = 0

\* C4: from 00:00:00, 86400 consecutive timer_isr invocations with no switch
\* pressed and the alarm off bring the clock back to 00:00:00, and no smaller
\* number of invocations above 0 does.
C4_FullDay ==
    (clean /\ run > 0 /\ alarm_on_off = OFF)
    => ((gs_timeKeeper = Midnight /\ seconds = 0) <=> run % DayLength = 0)

C4_Witness ==
    /\ clean /\ run = DayLength /\ alarm_on_off = OFF
    /\ gs_timeKeeper = Midnight /\ seconds = 0

----------------------------------------------------------------------------
(* Spec: both handlers, each run to its end, on every sample, from states   *)
(* at the carries, the switch thresholds and the tone period                *)

MaxSteps == 2

\* Times at the carries: 00:00, 09:59, 19:59, 23:59, and 12:34.
BoundaryTimes ==
    {Midnight, Time(0, 9, 5, 9), Time(1, 9, 5, 9), Time(2, 3, 5, 9), Time(1, 2, 3, 4)}

\* alarm_on_off, alarm_tone, milliseconds, prev_milliseconds: silent with the
\* alarm off or on, and sounding with the tone period running or about to end.
ToneStates ==
    {<<OFF, 0, 300, 0>>, <<ON, 0, 300, 0>>, <<ON, 7, 300, 100>>,
     <<ON, 1, 300, 50>>, <<ON, 4, 300, 50>>}

Init ==
    /\ \E t \in BoundaryTimes, a \in BOOLEAN, sec \in {58, 59},
          st \in {MIN_DELAY - 1, INIT_DELAY}, ts \in ToneStates :
          Load([PowerOn EXCEPT
                    !.gs_timeKeeper = t,
                    !.gs_alarmKeeper = IF a THEN t ELSE NextMinute(t),
                    !.seconds = sec,
                    !.switchTimeout = st,
                    !.alarm_on_off = ts[1],
                    !.alarm_tone = ts[2],
                    !.milliseconds = ts[3],
                    !.prev_milliseconds = ts[4],
                    !.P1 = SetBit7(@, IF ts[1] = ON THEN 0 ELSE 1)])
    /\ NoObservers

StepTimer(bound) ==
    \E s \in TimerSamples :
        /\ steps < bound
        /\ TimerISR(s)
        /\ steps' = steps + 1
        /\ UNCHANGED <<run, clean, holds, note, gate>>

StepControl(bound) ==
    \E s \in Samples :
        /\ steps < bound
        /\ ControlISR(s)
        /\ steps' = steps + 1
        /\ UNCHANGED <<run, clean, holds, note, gate>>

Next == StepTimer(MaxSteps) \/ StepControl(MaxSteps)

Spec == Init /\ [][Next]_vars

\* C5 as claimed: any timer_isr invocation in the alarm's minute with the alarm
\* on that leaves seconds = 0 sets the tone to 7 and records the time of the
\* change, the one that leaves seconds = 59 sets the tone to 0, and with the
\* alarm off or the digits different the tone is left as it was.
C5_AsClaimed ==
    last.op = "timer_isr"
    => /\ (alarm_on_off = ON /\ AlarmMatch(G) /\ seconds = 0)
            => (alarm_tone = 7 /\ prev_milliseconds = milliseconds)
       /\ (alarm_on_off = ON /\ AlarmMatch(G) /\ seconds = 59) => alarm_tone = 0
       /\ (alarm_on_off = OFF \/ ~AlarmMatch(G)) => alarm_tone = pre.alarm_tone

\* C5 (amended): the same, for an invocation that finds the time set switch
\* not pressed; one that finds it pressed leaves seconds = 0 and the tone as
\* it was.
C5_AlarmEval ==
    /\ (last.op = "timer_isr" /\ "SET_T" \notin last.sw)
       => /\ (alarm_on_off = ON /\ AlarmMatch(G) /\ seconds = 0)
               => (alarm_tone = 7 /\ prev_milliseconds = milliseconds)
          /\ (alarm_on_off = ON /\ AlarmMatch(G) /\ seconds = 59) => alarm_tone = 0
          /\ (alarm_on_off = OFF \/ ~AlarmMatch(G)) => alarm_tone = pre.alarm_tone
    /\ (last.op = "timer_isr" /\ "SET_T" \in last.sw)
       => (seconds = 0 /\ alarm_tone = pre.alarm_tone)

\* The tone has started at second 0 of the alarm's minute, and the time of the
\* change is not the one recorded before.
C5_Witness ==
    /\ last.op = "timer_isr" /\ "SET_T" \notin last.sw
    /\ alarm_on_off = ON /\ AlarmMatch(G) /\ seconds = 0
    /\ pre.alarm_tone = 0 /\ alarm_tone = 7
    /\ pre.prev_milliseconds # milliseconds /\ prev_milliseconds = milliseconds

\* C6: a control_isr invocation that turns the alarm from on to off leaves the
\* tone at 0, whatever the tone and the time since its last change were, and
\* the tone is 0 whenever the alarm is off.
C6_DisarmSilences ==
    /\ (last.op = "control_isr" /\ pre.alarm_on_off = ON /\ alarm_on_off = OFF)
       => alarm_tone = 0
    /\ alarm_on_off = OFF => alarm_tone = 0

\* The alarm was sounding, with its tone period not over, and has been turned off.
C6_Witness ==
    /\ last.op = "control_isr"
    /\ pre.alarm_on_off = ON /\ pre.alarm_tone = 7
    /\ U16(pre.milliseconds - pre.prev_milliseconds + 65536) < TONE_TIME
    /\ alarm_on_off = OFF /\ alarm_tone = 0

\* C11: a timer_isr invocation that finds the time set switch pressed sets
\* seconds to 0 and leaves the current time, the alarm time, alarm_on_off,
\* alarm_tone and prev_milliseconds as they were.
C11_HoldsSeconds ==
    (last.op = "timer_isr" /\ "SET_T" \in last.sw)
    => /\ seconds = 0
       /\ gs_timeKeeper = pre.gs_timeKeeper
       /\ gs_alarmKeeper = pre.gs_alarmKeeper
       /\ alarm_on_off = pre.alarm_on_off
       /\ alarm_tone = pre.alarm_tone
       /\ prev_milliseconds = pre.prev_milliseconds

\* The minute was about to end in the alarm's minute, with the alarm on and
\* sounding: the invocation has neither carried nor stopped the tone.
C11_Witness ==
    /\ last.op = "timer_isr" /\ "SET_T" \in last.sw
    /\ pre.seconds = 59 /\ seconds = 0
    /\ pre.alarm_on_off = ON /\ AlarmMatch(pre) /\ pre.alarm_tone = 7
    /\ gs_timeKeeper = pre.gs_timeKeeper /\ alarm_tone = 7

----------------------------------------------------------------------------
(* SpecTimes: both handlers, each run to its end, on every sample, from     *)
(* every time below 24:00 as the current time or as the alarm time, with    *)
(* the minute about to end and the switch timeout about to be exceeded      *)

MaxTimesSteps == 1

InitTimes ==
    /\ \E t \in ValidTimes, a \in BOOLEAN :
          Load([PowerOn EXCEPT
                    !.gs_timeKeeper = IF a THEN Midnight ELSE t,
                    !.gs_alarmKeeper = IF a THEN t ELSE Midnight,
                    !.seconds = 59,
                    !.switchTimeout = INIT_DELAY,
                    !.milliseconds = 300])
    /\ NoObservers

NextTimes == StepTimer(MaxTimesSteps) \/ StepControl(MaxTimesSteps)

SpecTimes == InitTimes /\ [][NextTimes]_vars

----------------------------------------------------------------------------
(* SpecPress: the Tick Engine alone, from power on, one sample per tick.    *)
(* The switches change at most MaxChanges times, each time after the        *)
(* sample before has lasted one of HoldDurations ticks.                     *)

MaxTicks == 130
MaxChanges == 2

HoldDurations ==
    {1, MIN_DELAY - 1, MIN_DELAY, MIN_DELAY + 1, INIT_DELAY, INIT_DELAY + 1}

InitPress ==
    /\ Load(PowerOn)
    /\ NoObservers

\* A set switch and an increment switch are pressed.
Holding(s) == ("SET_A" \in s \/ "SET_T" \in s) /\ ("MINUTE" \in s \/ "HOUR" \in s)

\* control_isr changed the current time or the alarm time.
Incremented(g, h) ==
    g.gs_timeKeeper # h.gs_timeKeeper \/ g.gs_alarmKeeper # h.gs_alarmKeeper

\* The observers of the presses after control_isr took g to h on the sample s.
ObservePress(g, h, s) ==
    LET same == seg = 0 \/ s = last.sw
        held == IF "ALARM" \in s THEN alarmHeld + 1 ELSE 0
        flip == g.alarm_on_off # h.alarm_on_off
    IN  /\ seg' = IF same THEN seg + 1 ELSE 1
        /\ changes' = IF same THEN changes ELSE changes + 1
        /\ alarmHeld' = held
        /\ minuteHeld' = IF "MINUTE" \in s THEN minuteHeld + 1 ELSE 0
        /\ hourHeld' = IF "HOUR" \in s THEN hourHeld + 1 ELSE 0
        /\ alarmLen' = IF "ALARM" \in s THEN held ELSE alarmLen
        /\ flipAt' = IF "ALARM" \notin s THEN flipAt
                      ELSE (IF held = 1 THEN {} ELSE flipAt)
                           \cup (IF flip THEN {held} ELSE {})
        /\ IF ~Holding(s)
           THEN /\ sinceInc' = -1 /\ lastInterval' = 0 /\ prevInterval' = 0
                /\ lastThreshold' = 0 /\ prevThreshold' = 0
           ELSE IF Incremented(g, h)
           THEN /\ sinceInc' = 0
                /\ lastInterval' = IF sinceInc = -1 THEN 0 ELSE sinceInc + 1
                /\ lastThreshold' = IF sinceInc = -1 THEN 0 ELSE g.initTimeout
                /\ prevInterval' = lastInterval
                /\ prevThreshold' = lastThreshold
           ELSE /\ sinceInc' = IF sinceInc = -1 THEN -1 ELSE sinceInc + 1
                /\ UNCHANGED <<lastInterval, lastThreshold, prevInterval, prevThreshold>>

\* The first sample is free; later ones repeat the last or change it.
MaySample(s) ==
    seg = 0 \/ s = last.sw \/ (changes < MaxChanges /\ seg \in HoldDurations)

PressControl ==
    \E s \in Samples :
        /\ milliseconds < MaxTicks
        /\ MaySample(s)
        /\ ControlISR(s)
        /\ ObservePress(G, control_isr(G, s), s)
        /\ UNCHANGED <<steps, run, clean, gate, note>>

NextPress == PressControl

SpecPress == InitPress /\ [][NextPress]_vars

\* C7: a press of the alarm on/off switch released before it was held for
\* MIN_DELAY consecutive control_isr invocations has not flipped alarm_on_off
\* (and so has not cleared the tone), whatever else was held.
C7_AsClaimed ==
    (alarmHeld = 0 /\ alarmLen \in 1..(MIN_DELAY - 1)) => flipAt = {}

\* C8: a press of the alarm on/off switch held for at least MIN_DELAY
\* invocations has flipped alarm_on_off exactly once, at the invocation where
\* its hold reached MIN_DELAY.
C8_AsClaimed ==
    alarmHeld >= MIN_DELAY => flipAt = {MIN_DELAY}

\* C9: in a set mode control_isr increments a time only when the pressed
\* increment switch has itself been held for longer than the repeat threshold,
\* and a press whose hold reaches that produces the increment at that tick.
C9_AsClaimed ==
    LET inc == last.op = "control_isr" /\ Incremented(pre, G)
        mode == "SET_A" \in last.sw \/ "SET_T" \in last.sw
    IN  /\ inc => /\ "MINUTE" \in last.sw => minuteHeld > pre.initTimeout
                  /\ "HOUR" \in last.sw => hourHeld > pre.initTimeout
        /\ (last.op = "control_isr" /\ mode /\ "MINUTE" \in last.sw
               /\ minuteHeld = pre.initTimeout + 1) => inc
        /\ (last.op = "control_isr" /\ mode /\ "HOUR" \in last.sw
               /\ hourHeld = pre.initTimeout + 1) => inc

\* C10: while a set switch and an increment switch stay pressed, the ticks
\* between consecutive increments strictly decrease until the threshold is at
\* MIN_DELAY, and are constant from then on; initTimeout is always in
\* MIN_DELAY..INIT_DELAY; and it is INIT_DELAY again once both increment
\* switches are released.
C10_AsClaimed ==
    /\ initTimeout \in MIN_DELAY..INIT_DELAY
    /\ (prevInterval > 0 /\ lastInterval > 0)
       => IF prevThreshold > MIN_DELAY
          THEN lastInterval < prevInterval
          ELSE lastInterval = prevInterval
    /\ (last.op = "control_isr" /\ "MINUTE" \notin last.sw /\ "HOUR" \notin last.sw)
       => initTimeout = INIT_DELAY

----------------------------------------------------------------------------
(* SpecGate: waitForTimeSet, from power on, with both handlers running to   *)
(* their end between its steps.  timer 0 overflows once a millisecond and   *)
(* main() takes at least one step between two overflows.  The time set      *)
(* switch is released until it is pressed, and then stays pressed.          *)

MaxGateTicks == 1100
MaxGateTimers == 2

\* The ticks at which the time set switch may be pressed.
GatePressTicks == {0, 767, 999, 1000, 1030}

\* What every read of the switches finds.
GateSample == IF setHeld THEN {"SET_T"} ELSE {}

\* main() has called waitForTimeSet (line 160).
AtGate ==
    /\ P0 = segmentArray[1] /\ P2 = 0
    /\ prev_digitSelect = 1
    /\ mpc = "w209" /\ mtmp = 0
    /\ cpc = "idle" /\ csw = {} /\ ctmp = 0
    /\ shown = [pos |-> 0, alarm |-> FALSE, index |-> 0, during |-> "idle"]

InitGate ==
    /\ Load(PowerOn)
    /\ AtGate
    /\ NoHandler
    /\ NoGate

\* A step of waitForTimeSet to line pc that leaves globals and ports alone.
GateKeeps == UNCHANGED <<globals, P0, P2, prev_digitSelect, cpc, csw, ctmp, shown,
                         last, pre, steps, run, clean, holds, note, setHeld>>

\* The early test with the wait cut to 100 milliseconds.
GateReady_Early(ms) == ms >= 100

\* Line 209: the loop ends once milliseconds is not below 1000.
GateReady(ms) == ms >= 1000

\* Line 209: milliseconds is two bytes, read one after the other; mtmp keeps
\* the counter as it was at the first read.
Gate209 ==
    /\ mpc = "w209"
    /\ mtmp' = milliseconds
    /\ mpc' = "w209h"
    /\ ranMain' = TRUE
    /\ UNCHANGED <<gateMs, gateSet>>
    /\ GateKeeps

\* The second byte is read, the low byte first or the high byte first as the
\* build has it, and the value compared with 1000.
Gate209h ==
    \E lowFirst \in BOOLEAN :
        LET ms == IF lowFirst
                  THEN (milliseconds \div 256) * 256 + (mtmp % 256)
                  ELSE (mtmp \div 256) * 256 + (milliseconds % 256)
        IN  /\ mpc = "w209h"
            /\ gateMs' = ms
            /\ mpc' = IF GateReady(ms) THEN "w214" ELSE "w209"
            /\ ranMain' = TRUE
            /\ UNCHANGED <<mtmp, gateSet>>
            /\ GateKeeps

\* Lines 212-214.
Gate214 ==
    /\ mpc = "w214"
    /\ Store([G EXCEPT !.seconds = 0])
    /\ mpc' = "w217"
    /\ ranMain' = TRUE
    /\ UNCHANGED <<P0, P2, prev_digitSelect, mtmp, cpc, csw, ctmp, shown,
                   last, pre, steps, run, clean, holds, note, gateMs, gateSet, setHeld>>

\* Line 217: the loop ends once the time set switch is found pressed.
Gate217 ==
    /\ mpc = "w217"
    /\ gateSet' = IF SET_T_SWITCH(GateSample) = 0 THEN "pressed" ELSE "released"
    /\ mpc' = IF SET_T_SWITCH(GateSample) = 0 THEN "w228" ELSE "w220"
    /\ ranMain' = TRUE
    /\ UNCHANGED <<mtmp, gateMs>>
    /\ GateKeeps

\* Line 220.
Gate220 ==
    /\ mpc = "w220"
    /\ P2' = IF seconds % 2 = 1 THEN 15 ELSE 0
    /\ mpc' = "w222"
    /\ ranMain' = TRUE
    /\ UNCHANGED <<globals, P0, prev_digitSelect, mtmp, cpc, csw, ctmp, shown,
                   last, pre, steps, run, clean, holds, note, gateMs, gateSet, setHeld>>

\* Line 222: DOT_LED is bit 6 of P1.
Gate222 ==
    /\ mpc = "w222"
    /\ Store([G EXCEPT !.P1 = (@ \div 128) * 128 + 64 * (seconds % 2) + (@ % 64)])
    /\ mpc' = "w224"
    /\ ranMain' = TRUE
    /\ UNCHANGED <<P0, P2, prev_digitSelect, mtmp, cpc, csw, ctmp, shown,
                   last, pre, steps, run, clean, holds, note, gateMs, gateSet, setHeld>>

\* Line 224: seconds is read,
Gate224 ==
    /\ mpc = "w224"
    /\ mtmp' = seconds
    /\ mpc' = "w224w"
    /\ ranMain' = TRUE
    /\ UNCHANGED <<gateMs, gateSet>>
    /\ GateKeeps

\* and its bit 0 written back.
Gate224w ==
    /\ mpc = "w224w"
    /\ Store([G EXCEPT !.seconds = mtmp % 2])
    /\ mpc' = "w217"
    /\ ranMain' = TRUE
    /\ UNCHANGED <<P0, P2, prev_digitSelect, mtmp, cpc, csw, ctmp, shown,
                   last, pre, steps, run, clean, holds, note, gateMs, gateSet, setHeld>>

\* Line 228, and the return to main() at line 163.
Gate228 ==
    /\ mpc = "w228"
    /\ Store([G EXCEPT !.seconds = 0])
    /\ mpc' = "m166"
    /\ ranMain' = TRUE
    /\ UNCHANGED <<P0, P2, prev_digitSelect, mtmp, cpc, csw, ctmp, shown,
                   last, pre, steps, run, clean, holds, note, gateMs, gateSet, setHeld>>

GateMain ==
    \/ Gate209 \/ Gate209h \/ Gate214 \/ Gate217
    \/ Gate220 \/ Gate222 \/ Gate224 \/ Gate224w \/ Gate228

\* timer 0 overflows, main() having taken a step since it last did.
GateControl ==
    /\ ranMain
    /\ milliseconds < MaxGateTicks
    /\ ControlISR(GateSample)
    /\ ranMain' = FALSE
    /\ UNCHANGED <<steps, run, clean, holds, note, gateMs, gateSet, setHeld>>

\* timer 1 overflows.
GateTimer ==
    /\ steps < MaxGateTimers
    /\ TimerISR(GateSample)
    /\ steps' = steps + 1
    /\ UNCHANGED <<run, clean, holds, note, gate>>

\* The time set switch is pressed.
PressSetT ==
    /\ ~setHeld
    /\ milliseconds \in GatePressTicks
    /\ setHeld' = TRUE
    /\ UNCHANGED <<globals, micro, last, pre, steps, run, clean, holds, note,
                   gateMs, gateSet, ranMain>>

NextGate == GateMain \/ GateControl \/ GateTimer \/ PressSetT

\* main() keeps running and timer 0 keeps overflowing.
SpecGate ==
    InitGate /\ [][NextGate]_vars /\ WF_vars(GateMain) /\ WF_vars(GateControl)

\* The loop of main() is reached only with milliseconds read as 1000 or more
\* and then the time set switch read as pressed.
GateOrder ==
    /\ mpc = "m166" => (gateMs >= 1000 /\ gateSet = "pressed")
    /\ gateSet # "none" => gateMs >= 1000

\* waitForTimeSet returns with seconds at 0.
GateHandOff == (mpc # "m166" /\ mpc' = "m166") => seconds' = 0

----------------------------------------------------------------------------
(* SpecPreempt: the handlers and main() step by step.  timer_isr has the    *)
(* higher priority: it runs to its end between any two steps of control_isr *)
(* or of main().  control_isr starts between any two steps of main(), and   *)
(* main() runs only while no handler does.  A step of control_isr or of     *)
(* main() is at most one access to a variable that a handler of higher      *)
(* priority writes.  control_isr runs on the sample taken when it starts.   *)

MaxInterrupts == 2

At(g, pc, r) == [g |-> g, pc |-> pc, r |-> r]

\* The chain with the time set switch leading to the alarm set branch.
Dispatch_TimeToAlarm(s) ==
    IF ALARM_SWITCH(s) = 0 THEN "c248"
    ELSE IF SET_A_SWITCH(s) = 0 \/ SET_T_SWITCH(s) = 0 THEN "c270"
    ELSE "c379"

\* Lines 245, 267, 322, 377: the branch taken on the sample s.
Dispatch(s) ==
    IF ALARM_SWITCH(s) = 0 THEN "c248"
    ELSE IF SET_A_SWITCH(s) = 0 THEN "c270"
    ELSE IF SET_T_SWITCH(s) = 0 THEN "c325"
    ELSE "c379"

\* The tests of lines 305, 299, 294 and 288 on the alarm time t: the line of
\* the next assignment.
AlarmTest305(t) == IF t.ten_hours >= 2 /\ t.one_hours >= 4 THEN "c307" ELSE "c312"
AlarmTest299(t) == IF t.one_hours > 9 THEN "c301" ELSE AlarmTest305(t)
AlarmTest294(t) == IF t.ten_minutes > 5 THEN "c296" ELSE AlarmTest299(t)
AlarmTest288(t) == IF t.one_minutes > 9 THEN "c290" ELSE AlarmTest294(t)

\* One step of control_isr at line pc on the globals g, the sample s and the
\* byte r read before: the globals, the line and the byte after it.
ControlStep(g, pc, s, r) ==
    LET t == g.gs_timeKeeper
        m == IF MINUTE_SWITCH(s) = 1 THEN 0 ELSE 1
        h == IF HOUR_SWITCH(s) = 1 THEN 0 ELSE 1
    IN  CASE pc = "c242" ->
                \* milliseconds++, the low byte
                At([g EXCEPT !.milliseconds = (@ \div 256) * 256 + U8(@ + 1)], "c242h", r)
          [] pc = "c242h" ->
                \* milliseconds++, the carry into the high byte
                At(IF g.milliseconds % 256 = 0
                   THEN [g EXCEPT !.milliseconds = U16(@ + 256)] ELSE g,
                   Dispatch(s), r)
          [] pc = "c248" ->
                LET b == [g EXCEPT !.switchTimeout =
                                       IF @ > MIN_DELAY THEN @ ELSE U8(@ + 1)]
                IN  At(b, IF b.switchTimeout = MIN_DELAY THEN "c254" ELSE "c384", r)
          [] pc = "c254" ->
                At([g EXCEPT !.alarm_on_off = IF @ = ON THEN OFF ELSE ON], "c256", r)
          [] pc = "c256" ->
                At([g EXCEPT !.P1 = SetBit7(@, IF g.alarm_on_off = 0 THEN 1 ELSE 0)],
                   IF g.alarm_on_off = OFF THEN "c261" ELSE "c384", r)
          [] pc = "c261" -> At([g EXCEPT !.prev_milliseconds = 0], "c262", r)
          [] pc = "c262" -> At([g EXCEPT !.alarm_tone = 0], "c384", r)
          [] pc = "c270" ->
                LET b == ResetInitTimeout([g EXCEPT !.switchTimeout = U8(@ + 1)], s)
                IN  At(b, IF PressAllowed(b, s) THEN "c282" ELSE "c384", r)
          [] pc = "c282" ->
                At([g EXCEPT !.gs_alarmKeeper.one_minutes = U8(@ + m)], "c285", r)
          [] pc = "c285" ->
                LET b == [g EXCEPT !.gs_alarmKeeper.one_hours = U8(@ + h)]
                IN  At(b, AlarmTest288(b.gs_alarmKeeper), r)
          [] pc = "c290" ->
                At([g EXCEPT !.gs_alarmKeeper.ten_minutes = U8(@ + 1)], "c291", r)
          [] pc = "c291" ->
                LET b == [g EXCEPT !.gs_alarmKeeper.one_minutes = 0]
                IN  At(b, AlarmTest294(b.gs_alarmKeeper), r)
          [] pc = "c296" ->
                LET b == [g EXCEPT !.gs_alarmKeeper.ten_minutes = 0]
                IN  At(b, AlarmTest299(b.gs_alarmKeeper), r)
          [] pc = "c301" ->
                At([g EXCEPT !.gs_alarmKeeper.ten_hours = U8(@ + 1)], "c302", r)
          [] pc = "c302" ->
                LET b == [g EXCEPT !.gs_alarmKeeper.one_hours = 0]
                IN  At(b, AlarmTest305(b.gs_alarmKeeper), r)
          [] pc = "c307" -> At([g EXCEPT !.gs_alarmKeeper.ten_hours = 0], "c308", r)
          [] pc = "c308" -> At([g EXCEPT !.gs_alarmKeeper.one_hours = 0], "c312", r)
          [] pc = "c312" -> At(RampDown(g), "c384", r)
          [] pc = "c325" ->
                LET b == ResetInitTimeout([g EXCEPT !.switchTimeout = U8(@ + 1)], s)
                IN  At(b, IF PressAllowed(b, s) THEN "c337" ELSE "c384", r)
          \* gs_timeKeeper is written by timer_isr too: each read, test and
          \* write of it is a step of its own.
          [] pc = "c337" -> At(g, "c337w", t.one_minutes)
          [] pc = "c337w" -> At([g EXCEPT !.gs_timeKeeper.one_minutes = U8(r + m)], "c340", r)
          [] pc = "c340" -> At(g, "c340w", t.one_hours)
          [] pc = "c340w" -> At([g EXCEPT !.gs_timeKeeper.one_hours = U8(r + h)], "c343", r)
          [] pc = "c343" -> At(g, IF t.one_minutes > 9 THEN "c345" ELSE "c349", r)
          [] pc = "c345" -> At(g, "c345w", t.ten_minutes)
          [] pc = "c345w" -> At([g EXCEPT !.gs_timeKeeper.ten_minutes = U8(r + 1)], "c346", r)
          [] pc = "c346" -> At([g EXCEPT !.gs_timeKeeper.one_minutes = 0], "c349", r)
          [] pc = "c349" -> At(g, IF t.ten_minutes > 5 THEN "c351" ELSE "c354", r)
          [] pc = "c351" -> At([g EXCEPT !.gs_timeKeeper.ten_minutes = 0], "c354", r)
          [] pc = "c354" -> At(g, IF t.one_hours > 9 THEN "c356" ELSE "c360", r)
          [] pc = "c356" -> At(g, "c356w", t.ten_hours)
          [] pc = "c356w" -> At([g EXCEPT !.gs_timeKeeper.ten_hours = U8(r + 1)], "c357", r)
          [] pc = "c357" -> At([g EXCEPT !.gs_timeKeeper.one_hours = 0], "c360", r)
          [] pc = "c360" -> At(g, IF t.ten_hours >= 2 THEN "c360b" ELSE "c367", r)
          [] pc = "c360b" -> At(g, IF t.one_hours >= 4 THEN "c362" ELSE "c367", r)
          [] pc = "c362" -> At([g EXCEPT !.gs_timeKeeper.ten_hours = 0], "c363", r)
          [] pc = "c363" -> At([g EXCEPT !.gs_timeKeeper.one_hours = 0], "c367", r)
          [] pc = "c367" -> At(RampDown(g), "c384", r)
          [] pc = "c379" -> At(IdleBranch(g), "c384", r)
          \* alarm_tone and prev_milliseconds are written by timer_isr too.
          [] pc = "c384" -> At(g, IF g.alarm_tone # 0 THEN "c386" ELSE "c394", r)
          [] pc = "c386" ->
                At(g, IF U16(g.milliseconds - g.prev_milliseconds + 65536) > TONE_TIME
                      THEN "c388" ELSE "c394", r)
          [] pc = "c388" -> At([g EXCEPT !.prev_milliseconds = g.milliseconds], "c389", r)
          [] pc = "c389" -> At(g, IF g.alarm_tone <= 1 THEN "c389s" ELSE "c389r", r)
          [] pc = "c389s" -> At([g EXCEPT !.alarm_tone = 7], "c394", r)
          [] pc = "c389r" -> At(g, "c389w", g.alarm_tone)
          [] pc = "c389w" -> At([g EXCEPT !.alarm_tone = U8(r + 255)], "c394", r)
          [] pc = "c394" -> At([g EXCEPT !.digitSelect = DigitAdvance(@)], "idle", r)

\* control_isr from line pc to its end with no timer_isr in between.
RECURSIVE ControlRun(_, _, _, _)
ControlRun(g, pc, s, r) ==
    IF pc = "idle" THEN g
    ELSE LET n == ControlStep(g, pc, s, r) IN ControlRun(n.g, n.pc, s, n.r)

\* The samples control_isr starts on: one for each branch of its chain, and
\* the time set branch with either or both increment switches.
PreemptSamples ==
    {{}, {"ALARM"}, {"SET_A", "MINUTE", "HOUR"}, {"SET_T", "MINUTE", "HOUR"},
     {"SET_T", "MINUTE"}, {"SET_T", "HOUR"}}

\* timer 0 overflows while no handler runs: control_isr starts on the sample s.
ControlEnter ==
    \E s \in PreemptSamples :
        /\ cpc = "idle"
        /\ steps < MaxInterrupts
        /\ cpc' = "c242" /\ csw' = s
        /\ last' = [op |-> "control_isr", sw |-> s]
        /\ pre' = G
        /\ steps' = steps + 1
        /\ note' = [note EXCEPT !.sw = s, !.wrote = {}, !.alarm = gs_alarmKeeper]
        /\ UNCHANGED <<globals, P0, P2, prev_digitSelect, mpc, mtmp, ctmp, shown,
                       run, clean, holds, gate>>

\* The times that differ between the globals g and h.
Written(g, h) ==
    (IF h.gs_alarmKeeper # g.gs_alarmKeeper THEN {"alarm"} ELSE {})
    \cup (IF h.gs_timeKeeper # g.gs_timeKeeper THEN {"time"} ELSE {})

\* control_isr takes its next step.
ControlAdvance ==
    /\ cpc # "idle"
    /\ LET n == ControlStep(G, cpc, csw, ctmp)
       IN  /\ Store(n.g)
           /\ cpc' = n.pc
           /\ ctmp' = n.r
           /\ csw' = IF n.pc = "idle" THEN {} ELSE csw
           /\ note' = [note EXCEPT !.wrote = @ \cup Written(G, n.g)]
    /\ UNCHANGED <<P0, P2, prev_digitSelect, mpc, mtmp, shown,
                   last, pre, steps, run, clean, holds, gate>>

\* Bits 6 and 7 of a port byte.
High2(p) == (p \div 64) * 64
\* Bit 6 of a port byte set to b (DOT_LED = b).
SetBit6(p, b) == (p \div 128) * 128 + 64 * b + (p % 64)

\* main() reads SET_A_SWITCH and SET_T_SWITCH; the samples it takes show the
\* current time or the alarm time.
MainSamples == {{}, {"SET_A"}}

\* A step of main() that leaves the ports alone.
MainKeeps == UNCHANGED <<globals, P0, P2, cpc, csw, ctmp, shown, observers>>

\* Line 166: the digit select has changed.
Main166 ==
    /\ cpc = "idle" /\ mpc = "m166"
    /\ prev_digitSelect # digitSelect
    /\ mpc' = "m169"
    /\ UNCHANGED <<prev_digitSelect, mtmp>>
    /\ MainKeeps

\* Line 169.
Main169 ==
    /\ cpc = "idle" /\ mpc = "m169"
    /\ P0' = 0
    /\ mpc' = "m172"
    /\ UNCHANGED <<globals, P2, prev_digitSelect, mtmp, cpc, csw, ctmp, shown, observers>>

\* Line 172: P1 is read,
Main172 ==
    /\ cpc = "idle" /\ mpc = "m172"
    /\ mtmp' = P1
    /\ mpc' = "m172w"
    /\ UNCHANGED prev_digitSelect
    /\ MainKeeps

\* and written back with the seconds in bits 0..5.
Main172w ==
    \E s \in MainSamples :
        /\ cpc = "idle" /\ mpc = "m172w"
        /\ Store([G EXCEPT !.P1 = High2(mtmp)
                                   + (IF SET_A_SWITCH(s) = 0 THEN 0 ELSE 63 - (seconds % 64))])
        /\ mpc' = "m175"
        /\ UNCHANGED <<P0, P2, prev_digitSelect, mtmp, cpc, csw, ctmp, shown, observers>>

\* Line 175.
Main175 ==
    /\ cpc = "idle" /\ mpc = "m175"
    /\ prev_digitSelect' = digitSelect
    /\ mpc' = "m178"
    /\ UNCHANGED mtmp
    /\ MainKeeps

\* Line 178.
Main178 ==
    /\ cpc = "idle" /\ mpc = "m178"
    /\ P2' = U8(alarm_tone * 16) + (digitSelect % 16)
    /\ mpc' = "m181"
    /\ UNCHANGED <<globals, P0, prev_digitSelect, mtmp, cpc, csw, ctmp, shown, observers>>

\* Line 181.
Main181 ==
    \E s \in MainSamples :
        /\ cpc = "idle" /\ mpc = "m181"
        /\ Store([G EXCEPT !.P1 = SetBit6(@, IF SET_T_SWITCH(s) = 0 \/ SET_A_SWITCH(s) = 0
                                              THEN 0 ELSE seconds % 2)])
        /\ mpc' = "m184"
        /\ UNCHANGED <<P0, P2, prev_digitSelect, mtmp, cpc, csw, ctmp, shown, observers>>

\* Line 184: the digit select is read, and a case taken if there is one for it.
Main184 ==
    /\ cpc = "idle" /\ mpc = "m184"
    /\ mtmp' = digitSelect
    /\ mpc' = IF digitSelect \in {SEG_ONE_MINUTE, SEG_TEN_MINUTE, SEG_ONE_HOUR, SEG_TEN_HOUR}
              THEN "m187" ELSE "m166"
    /\ UNCHANGED prev_digitSelect
    /\ MainKeeps

\* The digit of the time t that the digit select d shows.
Digit(t, d) ==
    CASE d = SEG_ONE_MINUTE -> t.one_minutes
      [] d = SEG_TEN_MINUTE -> t.ten_minutes
      [] d = SEG_ONE_HOUR -> t.one_hours
      [] d = SEG_TEN_HOUR -> t.ten_hours

\* Lines 187, 190, 193, 196: the digit is read and its segments written to P0.
\* A read past the end of segmentArray gives any byte.
MainDigit ==
    \E s \in MainSamples :
        /\ cpc = "idle" /\ mpc = "m187"
        /\ LET idx == Digit(IF SET_A_SWITCH(s) = 1 THEN gs_timeKeeper ELSE gs_alarmKeeper, mtmp)
           IN  /\ P0' \in IF idx \in 0..9 THEN {segmentArray[idx + 1]} ELSE 0..255
               /\ shown' = [pos |-> mtmp, alarm |-> SET_A_SWITCH(s) = 0,
                            index |-> idx, during |-> cpc]
        /\ mpc' = "m166"
        /\ UNCHANGED <<globals, P2, prev_digitSelect, mtmp, cpc, csw, ctmp, observers>>

\* Times at a carry into the hours.
CarryTimes == {Time(0, 9, 5, 9), Time(1, 9, 5, 9), Time(2, 3, 5, 9)}

\* The loop of main() is entered with the digit select at the ten minutes or
\* at the ten hours (the next tick takes it to the hours or to the minutes),
\* the times at the carries, the minute about to end and the switch timeout
\* about to be exceeded.
InitPreempt ==
    /\ \E t \in CarryTimes, a \in {Time(1, 9, 5, 9), Time(2, 3, 5, 9)},
          d \in {SEG_TEN_MINUTE, SEG_TEN_HOUR} :
          Load([PowerOn EXCEPT
                    !.gs_timeKeeper = t,
                    !.gs_alarmKeeper = a,
                    !.seconds = 59,
                    !.switchTimeout = INIT_DELAY,
                    !.milliseconds = 1000,
                    !.digitSelect = d])
    /\ NoObservers

NextPreempt ==
    \/ StepTimer(MaxInterrupts)
    \/ ControlEnter
    \/ ControlAdvance
    \/ Main166 \/ Main169 \/ Main172 \/ Main172w \/ Main175
    \/ Main178 \/ Main181 \/ Main184 \/ MainDigit

SpecPreempt == InitPreempt /\ [][NextPreempt]_vars

\* C2: every digit main() reads for the display is read while no handler is
\* part way through its carries, and is in 0..9, the indices of segmentArray.
C2_DisplayReads == shown.during = "idle" /\ shown.index \in 0..9

\* main() has read the ten minutes of the current time, 0, after timer_isr
\* took them from 5 to 0 with its carries.
C2_Witness ==
    /\ shown.pos = SEG_TEN_MINUTE /\ ~shown.alarm /\ shown.index = 0
    /\ last.op = "timer_isr" /\ "SET_T" \notin last.sw
    /\ pre.gs_timeKeeper.ten_minutes = 5 /\ gs_timeKeeper.ten_minutes = 0

\* What an invocation of control_isr has written agrees with the switches it
\* sampled: the alarm time only with alarm set, the current time only with
\* time set, never both.
OwnBranch ==
    /\ note.wrote # {"alarm", "time"}
    /\ "alarm" \in note.wrote => "SET_A" \in note.sw
    /\ "time" \in note.wrote => "SET_T" \in note.sw

\* A step that is not a step of control_isr's body (timer_isr, a step of
\* main(), the entry of control_isr) leaves the alarm time alone.
OthersKeepAlarm ==
    (cpc = "idle" \/ cpc' = cpc) => gs_alarmKeeper' = gs_alarmKeeper

\* C13: the alarm time changes only inside a control_isr invocation that
\* sampled alarm set; control_isr changes the current time only when it sampled
\* time set; no invocation changes both; timer_isr and main() never change the
\* alarm time.
C13_Ownership == []OwnBranch /\ [][OthersKeepAlarm]_vars

\* A control_isr invocation that sampled alarm set has finished and has
\* changed the alarm time and nothing else.
C13_Witness ==
    /\ cpc = "idle" /\ last.op = "control_isr"
    /\ note.wrote = {"alarm"} /\ "SET_A" \in note.sw
    /\ gs_alarmKeeper # pre.gs_alarmKeeper

\* The samples of a manual minute increment: a set switch and the minute switch.
MinuteIncrements == {{"SET_A", "MINUTE"}, {"SET_T", "MINUTE"}}

\* The time the set switch of the sample s selects in the globals g.
SetTime(g, s) == IF "SET_A" \in s THEN g.gs_alarmKeeper ELSE g.gs_timeKeeper

\* The other branch's result on the same input: control_isr with the two times
\* and the two set switches exchanged.
OtherBranch(g, s) ==
    LET h == [g EXCEPT !.gs_alarmKeeper = g.gs_timeKeeper,
                       !.gs_timeKeeper = g.gs_alarmKeeper]
        o == IF "SET_A" \in s THEN (s \ {"SET_A"}) \cup {"SET_T"}
                              ELSE (s \ {"SET_T"}) \cup {"SET_A"}
    IN  SetTime(control_isr(h, o), o)

\* The alarm set and the time set branches compute the same time from the
\* same input.
BranchesAgree ==
    (last.op = "control_isr" /\ last.sw \in MinuteIncrements)
        => SetTime(G, last.sw) = OtherBranch(pre, last.sw)

\* C14: a manual minute increment by control_isr gives the time timer_isr's
\* one minute rollover gives on the same value, with the carry from the ten
\* minutes into the hours and the wrap at 24:00, and the alarm set and time set
\* branches give the same result.
C14_AsClaimed ==
    (/\ last.op = "control_isr" /\ last.sw \in MinuteIncrements
     /\ PressAllowed([pre EXCEPT !.switchTimeout = U8(@ + 1)], last.sw))
        => /\ SetTime(G, last.sw)
                = SecondsRollover([SetTime(pre, last.sw) EXCEPT !.one_minutes = U8(@ + 1)])
           /\ SetTime(G, last.sw) = OtherBranch(pre, last.sw)

-----------------------------------------------------------------------------
(* SpecTone: the two handlers line by line around the alarm tone: timer_isr  *)
(* (priority 1, lines 146-150) interrupts control_isr between any two of its *)
(* steps. main() writes none of the variables the tone depends on and is     *)
(* left at the head of its loop.                                             *)

\* The tone levels and the seconds the alarm evaluation and the tone
\* sequencing distinguish.
ToneLevels == {0, 1, 2, 7}
ToneSeconds == {0, 58, 59}
\* milliseconds and prev_milliseconds: within TONE_TIME of the last change,
\* past it, and past it across the wrap of the 16 bit counter.
ToneClocks == {<<1000, 900>>, <<1000, 700>>, <<300, 65500>>}
\* The alarm time equals the current time, or is a minute later.
ToneTime == Time(0, 7, 0, 0)
ToneAlarms == {ToneTime, Time(0, 7, 0, 1)}

InitTone ==
    /\ \E a \in ToneAlarms, o \in {ON, OFF}, l \in ToneLevels,
          sec \in ToneSeconds, c \in ToneClocks, w \in {MIN_DELAY - 1, INIT_DELAY} :
          \* a tone sounds in the armed alarm's minute, before its second 59
          /\ l # 0 => o = ON /\ a = ToneTime /\ sec # 59
          /\ Load([PowerOn EXCEPT
                    !.gs_timeKeeper = ToneTime,
                    !.gs_alarmKeeper = a,
                    !.alarm_on_off = o,
                    !.P1 = SetBit7(@, 1 - o),
                    !.alarm_tone = l,
                    !.seconds = sec,
                    !.switchTimeout = w,
                    !.milliseconds = c[1],
                    !.prev_milliseconds = c[2]])
    /\ NoObservers

NextTone ==
    \/ StepTimer(MaxInterrupts)
    \/ ControlEnter
    \/ ControlAdvance

SpecTone == InitTone /\ [][NextTone]_vars

\* control_isr's tone sequencing assigns alarm_tone in this step (line 389).
ToneAssigned == cpc \in {"c389s", "c389w"} /\ cpc' = "c394"

\* Line 389 as one step: from a sounding tone to the next lower level, from 1
\* back to 7, with the time stamp of line 388 in place.
ToneStep ==
    ToneAssigned =>
        /\ alarm_tone # 0
        /\ alarm_tone' = IF alarm_tone <= 1 THEN 7 ELSE alarm_tone - 1
        /\ prev_milliseconds = milliseconds

\* C15: the tone level is always in 0..7, and the tone sequencing of
\* control_isr steps a sounding tone 7, 6, .., 1 and from 1 back to 7, never
\* to 0, with the time stamp recorded; a step of control_isr outside line 389
\* and not in the alarm switch branch leaves the tone as it is.
C15_AsClaimed ==
    /\ [](alarm_tone \in 0..7)
    /\ [][ToneStep]_vars
    /\ [][(cpc # "idle" /\ cpc' # cpc /\ ~ToneAssigned /\ cpc # "c262")
            => alarm_tone' = alarm_tone]_vars

\* C16: once timer_isr has run with seconds reaching 59 and the handlers have
\* returned, the tone is silent, for every sample of the switches and every
\* interleaving of the two handlers: no tone sounds past its minute.
C16_AsClaimed ==
    (last.op = "timer_isr" /\ seconds = 59 /\ cpc = "idle") => alarm_tone = 0

\* The alarm time as control_isr's last completed invocation left it.
SettledAlarm == IF cpc = "idle" THEN gs_alarmKeeper ELSE note.alarm

\* The step is an invocation of timer_isr.
TimerRan == last'.op = "timer_isr" /\ steps' = steps + 1

\* timer_isr turns the tone on: armed, second 0, the current time equal to the
\* settled alarm time.
Activation ==
    /\ TimerRan
    /\ alarm_on_off = ON
    /\ seconds' = 0
    /\ gs_timeKeeper' = SettledAlarm

\* C17: with timer_isr interrupting control_isr at any point, the tone goes
\* from 0 to a nonzero level only in a timer_isr invocation with the alarm
\* armed, seconds 0 and the current time equal to the alarm time as the last
\* completed increment of control_isr left it; control_isr's tone sequencing
\* never turns a silent tone on.
C17_AsClaimed == [][(alarm_tone = 0 /\ alarm_tone' # 0) => Activation]_vars

\* The digit positions and their round robin order.
Cursors == {SEG_ONE_MINUTE, SEG_TEN_MINUTE, SEG_ONE_HOUR, SEG_TEN_HOUR}
CursorNext(d) ==
    CASE d = SEG_ONE_MINUTE -> SEG_TEN_MINUTE
      [] d = SEG_TEN_MINUTE -> SEG_ONE_HOUR
      [] d = SEG_ONE_HOUR -> SEG_TEN_HOUR
      [] OTHER -> SEG_ONE_MINUTE

\* control_isr returns in this step.
ControlReturns == cpc # "idle" /\ cpc' = "idle"

\* A return of control_isr moves the cursor to the next position; no other
\* step (of control_isr, timer_isr or main()) writes it.
CursorStep ==
    IF ControlReturns
    THEN digitSelect' = CursorNext(digitSelect)
    ELSE digitSelect' = digitSelect

\* C18: between control_isr invocations digitSelect is one of 1, 2, 4, 8;
\* every invocation, whatever it samples and whichever branch it takes,
\* advances it one step in the order 1, 2, 4, 8, 1; nothing else writes it.
C18_Cursor == [](cpc = "idle" => digitSelect \in Cursors) /\ [][CursorStep]_vars

\* An invocation of control_isr has returned and has taken the cursor from
\* the last position, 8, back to the first.
C18_Witness ==
    /\ cpc = "idle" /\ last.op = "control_isr"
    /\ pre.digitSelect = SEG_TEN_HOUR /\ digitSelect = SEG_ONE_MINUTE

\* The digit position asserted on the select lines, the low nibble of P2.
Asserted == P2 % 16

\* C19: whenever P0 holds a pattern other than blank while the select lines
\* assert a digit position, the pattern is the one main() wrote for that
\* position, whatever the interleaving of main() with control_isr.
C19_AsClaimed == (P0 # 0 /\ Asserted \in Cursors) => shown.pos = Asserted

-----------------------------------------------------------------------------
(* SpecLed: main(), control_isr and timer_isr line by line as in SpecPreempt,*)
(* from states where the alarm switch has been held for MIN_DELAY - 1 ticks, *)
(* so that the next tick that samples it toggles the alarm.                  *)

InitLed ==
    /\ \E o \in {ON, OFF}, d \in {SEG_TEN_MINUTE, SEG_TEN_HOUR}, sec \in {0, 21} :
          Load([PowerOn EXCEPT
                    !.gs_timeKeeper = ToneTime,
                    !.alarm_on_off = o,
                    !.P1 = SetBit7(@, 1 - o),
                    !.seconds = sec,
                    !.switchTimeout = MIN_DELAY - 1,
                    !.milliseconds = 1000,
                    !.digitSelect = d])
    /\ NoObservers

SpecLed == InitLed /\ [][NextPreempt]_vars

\* ALARM_LED, bit 7 of P1.
ALARM_LED == P1 \div 128

\* C20: outside a control_isr invocation ALARM_LED is the complement of
\* alarm_on_off, also when control_isr toggles the alarm while main() is
\* between its read and its write of P1 at line 172.
C20_AsClaimed == cpc = "idle" => ALARM_LED = 1 - alarm_on_off

====
